---- MODULE Spec2Model ----
(***************************************************************************)
(* A model of src/dist.py: the Forge mod classifier.                       *)
(*                                                                         *)
(*   get_mod_metadata          the Metadata Extractor                      *)
(*   analyze_code_references   the Signature Scanner                       *)
(*   initial_classify          the Initial Classifier                      *)
(*   main, phase 1             the collection pass                         *)
(*   main, phase 2             the dependency-correction sweep             *)
(*                                                                         *)
(* Text is modelled as tuples of ASCII code points wherever the program    *)
(* converts its case (str.lower, str.upper) or orders it; identifiers that *)
(* are only compared for equality (modIds) are TLA+ strings.               *)
(***************************************************************************)
EXTENDS Integers, Sequences, FiniteSets, TLC

VARIABLES
    \* ---- initial_classify, run on its own
    toml_flags,          \* what the three manifest tests of initial_classify see
    namelist_flags,      \* has_assets / has_api_folder of the entry-name list
    code_analysis,       \* the scanner's output handed to the classifier
    classified,          \* the (classification, reason) returned; <<>> before the call
    \* ---- analyze_code_references, run on its own
    class_files,         \* the .class entries of the archive, in archive order
    scan_i,              \* index of the next entry of the for loop
    findings,            \* the eight signals
    scan_pc,             \* "loop" | "returned"
    \* ---- main
    pc,                  \* "collect" | "correct" | "done" | "aborted"
    jar_files,           \* the sorted list of .jar names
    pos,                 \* index into jar_files of the running for loop
    all_mods_info,       \* filename -> record
    mod_id_to_filename,  \* modId -> filename
    corrections_made,    \* the counter of phase 2
    visited,             \* the filenames whose record phase 2 has examined, in order
    run,                 \* 1: the program's sweep; 2: a second sweep over its output
    first_run            \* the records as the first sweep left them (run 2 only)

vars == << toml_flags, namelist_flags, code_analysis, classified,
           class_files, scan_i, findings, scan_pc,
           pc, jar_files, pos, all_mods_info, mod_id_to_filename,
           corrections_made, visited, run, first_run >>

classifyVars == << toml_flags, namelist_flags, code_analysis, classified >>
scanVars     == << class_files, scan_i, findings, scan_pc >>
mainVars     == << pc, jar_files, pos, all_mods_info, mod_id_to_filename,
                   corrections_made, visited, run, first_run >>

None == "None"

(***************************************************************************)
(* Text as code points.                                                    *)
(***************************************************************************)
\* str.upper / str.lower on ASCII text
UpperChar(c) == IF c \in 97..122 THEN c - 32 ELSE c
LowerChar(c) == IF c \in 65..90 THEN c + 32 ELSE c
Upper(s) == [i \in 1..Len(s) |-> UpperChar(s[i])]
Lower(s) == [i \in 1..Len(s) |-> LowerChar(s[i])]

\* Python's str comparison: s < t, code point by code point
RECURSIVE StrLess(_, _)
StrLess(s, t) ==
    IF Len(t) = 0 THEN FALSE
    ELSE IF Len(s) = 0 THEN TRUE
    ELSE IF Head(s) # Head(t) THEN Head(s) < Head(t)
    ELSE StrLess(Tail(s), Tail(t))

\* str.endswith
EndsWith(s, suffix) ==
    /\ Len(s) >= Len(suffix)
    /\ SubSeq(s, Len(s) - Len(suffix) + 1, Len(s)) = suffix

(***************************************************************************)
(* The five categories (the keys of category_folders).                     *)
(***************************************************************************)
CLIENT_ONLY == "CLIENT_ONLY"     \* "僅客戶端"
SERVER_ONLY == "SERVER_ONLY"     \* "僅伺服器端"
UNIVERSAL   == "UNIVERSAL"       \* "雙端"
API_LIBRARY == "API_LIBRARY"     \* "API / 函式庫"
ERROR       == "ERROR"           \* "錯誤"

Classifications == {CLIENT_ONLY, SERVER_ONLY, UNIVERSAL, API_LIBRARY, ERROR}

(***************************************************************************)
(* analyze_code_references                                                 *)
(*                                                                         *)
(* The content of a .class entry is the set of byte signatures that occur  *)
(* in it (`sig in content`); none of the ten signatures contains another.  *)
(***************************************************************************)
isclientside_sig   == "isClientSide"
level_class_sig    == "Lnet/minecraft/world/level/Level;"
distexecutor_sig   == "Lnet/minecraftforge/fml/DistExecutor;"
onlyin_sig         == "Lnet/minecraftforge/api/distmarker/OnlyIn;"
dist_sig           == "Lnet/minecraftforge/api/distmarker/Dist;"
client_enum_sig    == "CLIENT"
server_enum_sig    == "SERVER"
fmlenv_sig         == "Lnet/minecraftforge/fml/loading/FMLEnvironment;"
generic_client_sig == "net/minecraft/client/"
server_sig         == "net/minecraft/server/level/"

Signatures == { isclientside_sig, level_class_sig, distexecutor_sig, onlyin_sig,
                dist_sig, client_enum_sig, server_enum_sig, fmlenv_sig,
                generic_client_sig, server_sig }

SignalNames == { "has_level_isclientside", "has_distexecutor_client",
                 "has_distexecutor_server", "has_onlyin_client",
                 "has_onlyin_server", "has_fmlenvironment_dist",
                 "has_generic_client_ref", "has_server_ref" }

\* findings as first assigned: every signal False
NoFindings == [s \in SignalNames |-> FALSE]

\* findings[signal] = True
Found(f, signal) == [f EXCEPT ![signal] = TRUE]

\* lines 71-72
TestLevel(f, content) ==
    IF /\ ~f["has_level_isclientside"]
       /\ isclientside_sig \in content
       /\ level_class_sig \in content
    THEN Found(f, "has_level_isclientside") ELSE f

\* lines 75-78 and 81-84: the CLIENT and SERVER tokens under a marker pair
TestClient(f, content, signal) ==
    IF ~f[signal] /\ client_enum_sig \in content THEN Found(f, signal) ELSE f

TestServer(f, content, signal) ==
    IF ~f[signal] /\ server_enum_sig \in content THEN Found(f, signal) ELSE f

\* lines 74-78
TestDistExecutor(f, content) ==
    IF distexecutor_sig \in content /\ dist_sig \in content
    THEN TestServer(TestClient(f, content, "has_distexecutor_client"),
                    content, "has_distexecutor_server")
    ELSE f

\* lines 80-84
TestOnlyIn(f, content) ==
    IF onlyin_sig \in content /\ dist_sig \in content
    THEN TestServer(TestClient(f, content, "has_onlyin_client"),
                    content, "has_onlyin_server")
    ELSE f

\* lines 86-91: the three single-marker signals
TestMarker(f, content, sig, signal) ==
    IF ~f[signal] /\ sig \in content THEN Found(f, signal) ELSE f

\* the body of the `with zf.open(filename)` block for one entry's content
ScanContent(f, content) ==
    TestMarker(
      TestMarker(
        TestMarker(
          TestOnlyIn(TestDistExecutor(TestLevel(f, content), content), content),
          content, fmlenv_sig, "has_fmlenvironment_dist"),
        content, generic_client_sig, "has_generic_client_ref"),
      content, server_sig, "has_server_ref")

\* any() written for all(): the loop breaks at the first signal found
AnyFound(f) == \E s \in SignalNames : f[s]

\* all(f for f in findings.values() if isinstance(f, bool))
AllFound(f) == \A s \in SignalNames : f[s]

\* One iteration of `for filename in class_files`: an entry that cannot be
\* opened or read raises before any signal is tested, and the loop continues.
ScanEntry(f, entry) ==
    IF entry.readable THEN ScanContent(f, entry.content) ELSE f

\* The whole function: the loop from entry i on, with its early break.
RECURSIVE ScanFrom(_, _, _)
ScanFrom(files, i, f) ==
    IF i > Len(files) THEN f
    ELSE LET g == ScanEntry(f, files[i])
         IN  IF files[i].readable /\ AllFound(g) THEN g
             ELSE ScanFrom(files, i + 1, g)

analyze_code_references(files) == ScanFrom(files, 1, NoFindings)

(***************************************************************************)
(* initial_classify                                                        *)
(*                                                                         *)
(* tf: the manifest tests (displayTest regex, '[[exports]]' substring,     *)
(* description containing 'api' or 'library'); nf: has_assets and          *)
(* has_api_folder; ca: the scanner's findings.  Returns the pair           *)
(* (classification, reason).                                               *)
(***************************************************************************)
\* lines 115-152: the rules on the archive's entries and code
ClassifyByCode(nf, ca) ==
      LET has_client_features ==
              \/ ca["has_distexecutor_client"]
              \/ ca["has_onlyin_client"]
              \/ ca["has_generic_client_ref"]
              \/ ca["has_fmlenvironment_dist"]
          has_server_features ==
              \/ ca["has_distexecutor_server"]
              \/ ca["has_onlyin_server"]
              \/ ca["has_server_ref"]
          has_logical_side_check == ca["has_level_isclientside"]
      IN  IF has_logical_side_check \/ (has_client_features /\ has_server_features)
          THEN << UNIVERSAL,
                  IF has_logical_side_check THEN "both sides (isClientSide)"
                                            ELSE "both sides (client and server)" >>
          ELSE IF ~nf.has_assets
          THEN IF has_client_features
               THEN << CLIENT_ONLY, "no assets, client code" >>
               ELSE << SERVER_ONLY, "no assets, no client code" >>
          ELSE IF has_client_features THEN << UNIVERSAL, "assets and client code" >>
          ELSE IF nf.has_api_folder THEN << API_LIBRARY, "assets and api folder" >>
          ELSE << UNIVERSAL, "assets, no client code" >>

\* the exports test placed before the displayTest test
initial_classify_ExportsFirst(tf, nf, ca) ==
    IF tf.exports THEN << API_LIBRARY, "exports" >>
    ELSE IF tf.displayTest THEN << CLIENT_ONLY, "displayTest" >>
    ELSE IF tf.description THEN << API_LIBRARY, "description" >>
    ELSE ClassifyByCode(nf, ca)

initial_classify(tf, nf, ca) ==
    IF tf.displayTest THEN << CLIENT_ONLY, "displayTest" >>
    ELSE IF tf.exports THEN << API_LIBRARY, "exports" >>
    ELSE IF tf.description THEN << API_LIBRARY, "description" >>
    ELSE ClassifyByCode(nf, ca)

(***************************************************************************)
(* get_mod_metadata                                                        *)
(*                                                                         *)
(* The manifest is what the regular expressions see of it: the modId       *)
(* assignment of the [[mods]] table (or None), followed by the             *)
(* [[dependencies.*]] blocks in declaration order, each with the first     *)
(* modId assignment of the block (or None) and the quoted value of its     *)
(* first side assignment (<<>> when the block has none: the pattern (.+?)  *)
(* never matches an empty value).                                          *)
(***************************************************************************)
BOTH   == << 66, 79, 84, 72 >>             \* "BOTH"
CLIENT == << 67, 76, 73, 69, 78, 84 >>     \* "CLIENT"
SERVER == << 83, 69, 82, 86, 69, 82 >>     \* "SERVER"

\* re.search(modId pattern, toml_content): the first assignment in the text
FirstModId(toml) ==
    IF toml.modId # None THEN toml.modId
    ELSE LET named == SelectSeq(toml.blocks, LAMBDA b : b.modId # None)
         IN  IF Len(named) > 0 THEN named[1].modId ELSE None

\* lines 28-32: side = "BOTH", replaced by the upper-cased match when there is one
BlockSide(block) == IF block.side # << >> THEN Upper(block.side) ELSE BOTH

get_mod_metadata(toml) ==
    LET kept == SelectSeq(toml.blocks, LAMBDA b : b.modId # None)
    IN  [ modId        |-> FirstModId(toml),
          dependencies |-> [ i \in 1..Len(kept) |->
                               [ modId |-> kept[i].modId, side |-> BlockSide(kept[i]) ] ] ]

(***************************************************************************)
(* main: the list of archives (line 251)                                   *)
(***************************************************************************)
\* sorted() without its key: names are ordered as they are
SortKey_CaseSensitive(f) == f

\* the key of sorted(): str.lower
SortKey(f) == Lower(f)

\* sorted() is stable: f goes after every element whose key is not greater
RECURSIVE Insert(_, _)
Insert(sorted, f) ==
    IF Len(sorted) = 0 THEN << f >>
    ELSE IF StrLess(SortKey(f), SortKey(Head(sorted))) THEN << f >> \o sorted
    ELSE << Head(sorted) >> \o Insert(Tail(sorted), f)

RECURSIVE Sorted(_)
Sorted(list) ==
    IF Len(list) = 0 THEN << >>
    ELSE Insert(Sorted(SubSeq(list, 1, Len(list) - 1)), list[Len(list)])

DotJar == << 46, 106, 97, 114 >>     \* ".jar"

\* [f for f in sorted(os.listdir(mods_dir), key=str.lower) if f.lower().endswith('.jar')]
JarFiles(listing) == SelectSeq(Sorted(listing), LAMBDA f : EndsWith(Lower(f), DotJar))

(***************************************************************************)
(* main: phase 1, one archive per step                                     *)
(***************************************************************************)
IGNORED_DEPENDENCIES == {"minecraft", "forge"}

\* d[k] = v on a dict
Put(d, k, v) == [x \in DOMAIN d \cup {k} |-> IF x = k THEN v ELSE d[x]]

\* what `except (zipfile.BadZipFile, OSError)` catches
Caught == {"BadZipFile", "OSError"}

\* the record of an archive that was read (lines 269-277)
ReadRecord(archive) ==
    LET md == get_mod_metadata(archive.toml)
        ic == initial_classify(archive.toml_flags, archive.namelist_flags,
                               analyze_code_references(archive.class_files))
    IN  [ modId                  |-> md.modId,
          dependencies           |-> md.dependencies,
          initial_classification |-> ic[1],
          initial_reason         |-> ic[2],
          final_classification   |-> ic[1],
          was_corrected          |-> FALSE,
          correction_reason      |-> << >> ]

\* the record of an archive whose reading raised a caught exception (lines 281-284)
ErrorRecord(e) ==
    [ initial_classification |-> ERROR,
      initial_reason         |-> << "cannot read JAR", e >>,
      final_classification   |-> ERROR,
      was_corrected          |-> FALSE ]

\* the first archive of a modId keeps its index entry
IndexUpdate_FirstWins(index, modId, filename) ==
    IF modId # None /\ modId \notin DOMAIN index THEN Put(index, modId, filename) ELSE index

\* lines 278-279
IndexUpdate(index, modId, filename) ==
    IF modId # None THEN Put(index, modId, filename) ELSE index

(***************************************************************************)
(* main: phase 2, one record per step                                      *)
(***************************************************************************)
\* lines 306-310 and 318-322: the record after a correction
Corrected(info, reason) ==
    [ info EXCEPT !.final_classification = UNIVERSAL,
                  !.correction_reason = reason,
                  !.was_corrected = TRUE ]

\* the dependency's classification read from what phase 1 stored
DepClassification_Initial(dep_filename, filename, info) ==
    IF dep_filename = filename THEN info.initial_classification
    ELSE all_mods_info[dep_filename].initial_classification

\* dep_info['final_classification'] (lines 316-317); dep_info is info itself
\* when the record depends on its own modId
DepClassification(dep_filename, filename, info) ==
    IF dep_filename = filename THEN info.final_classification
    ELSE all_mods_info[dep_filename].final_classification

RECURSIVE ScanDependencies(_, _, _)

\* the loop without its break: it goes on after a correction
ScanDependencies_NoBreak(filename, info, i) ==
    IF i > Len(info.dependencies) THEN info
    ELSE
      LET dep_id == info.dependencies[i].modId
          dep_side == Upper(info.dependencies[i].side)
      IN  IF dep_id \in IGNORED_DEPENDENCIES
          THEN ScanDependencies(filename, info, i + 1)
          ELSE IF dep_side = BOTH
          THEN ScanDependencies(filename, Corrected(info, << "side=BOTH", dep_id >>), i + 1)
          ELSE IF \/ dep_id \notin DOMAIN mod_id_to_filename
                  \/ mod_id_to_filename[dep_id] \notin DOMAIN all_mods_info
          THEN ScanDependencies(filename, info, i + 1)
          ELSE IF DepClassification(mod_id_to_filename[dep_id], filename, info)
                      \in {UNIVERSAL, API_LIBRARY}
          THEN ScanDependencies(filename,
                                Corrected(info, << "universal/API", dep_id >>), i + 1)
          ELSE ScanDependencies(filename, info, i + 1)

\* the loop with a break where it has a continue: an unresolved dependency ends it
ScanDependencies_StopsAtUnresolved(filename, info, i) ==
    IF i > Len(info.dependencies) THEN info
    ELSE
      LET dep_id == info.dependencies[i].modId
          dep_side == Upper(info.dependencies[i].side)
      IN  IF dep_id \in IGNORED_DEPENDENCIES
          THEN ScanDependencies(filename, info, i + 1)
          ELSE IF dep_side = BOTH
          THEN Corrected(info, << "side=BOTH", dep_id >>)
          ELSE IF \/ dep_id \notin DOMAIN mod_id_to_filename
                  \/ mod_id_to_filename[dep_id] \notin DOMAIN all_mods_info
          THEN info
          ELSE IF DepClassification(mod_id_to_filename[dep_id], filename, info)
                      \in {UNIVERSAL, API_LIBRARY}
          THEN Corrected(info, << "universal/API", dep_id >>)
          ELSE ScanDependencies(filename, info, i + 1)

\* The loop `for dep_dict in info.get('dependencies', [])` (lines 296-325)
\* from dependency i on: `continue` goes to i + 1, `break` returns.
ScanDependencies(filename, info, i) ==
    IF i > Len(info.dependencies) THEN info
    ELSE
      LET dep_id == info.dependencies[i].modId
          dep_side == Upper(info.dependencies[i].side)
      IN  IF dep_id \in IGNORED_DEPENDENCIES
          THEN ScanDependencies(filename, info, i + 1)
          ELSE IF dep_side = BOTH
          THEN Corrected(info, << "side=BOTH", dep_id >>)
          ELSE IF \/ dep_id \notin DOMAIN mod_id_to_filename
                  \/ mod_id_to_filename[dep_id] \notin DOMAIN all_mods_info
          THEN ScanDependencies(filename, info, i + 1)
          ELSE IF DepClassification(mod_id_to_filename[dep_id], filename, info)
                      \in {UNIVERSAL, API_LIBRARY}
          THEN Corrected(info, << "universal/API", dep_id >>)
          ELSE ScanDependencies(filename, info, i + 1)

\* line 295 left out: the dependencies of every record are scanned
CorrectInfo_Unguarded(filename, info) == ScanDependencies(filename, info, 1)

\* lines 294-325 for one record
CorrectInfo(filename, info) ==
    IF info.initial_classification \in {SERVER_ONLY, CLIENT_ONLY}
    THEN ScanDependencies(filename, info, 1)
    ELSE info

(***************************************************************************)
(* The classifier and the scanner run on their own, on inputs from bounded  *)
(* sets.                                                                   *)
(***************************************************************************)
MaxEntries == 3      \* .class entries per archive

\* all sequences over S of length at most n
SeqsUpTo(S, n) == UNION { [1..k -> S] : k \in 0..n }

\* contents of a .class entry: each signal alone, the halves of the compound
\* signals apart and together, and every signature at once
ContentPool ==
    { {},
      {isclientside_sig},
      {level_class_sig},
      {isclientside_sig, level_class_sig},
      {distexecutor_sig, client_enum_sig},
      {dist_sig, client_enum_sig, server_enum_sig},
      {distexecutor_sig, dist_sig, client_enum_sig},
      {onlyin_sig, dist_sig, server_enum_sig},
      {distexecutor_sig, onlyin_sig, dist_sig, client_enum_sig, server_enum_sig},
      {fmlenv_sig, generic_client_sig, server_sig},
      Signatures }

EntryPool == [ content : ContentPool, readable : BOOLEAN ]

\* the classifier and the scanner hold nothing while main runs, and main holds
\* nothing while one of them is checked alone
IdleClassify ==
    /\ toml_flags = << >>
    /\ namelist_flags = << >>
    /\ code_analysis = << >>
    /\ classified = << >>

IdleScan ==
    /\ class_files = << >>
    /\ scan_i = 1
    /\ findings = << >>
    /\ scan_pc = "returned"

IdleMain ==
    /\ pc = "done"
    /\ jar_files = << >>
    /\ pos = 1
    /\ all_mods_info = << >>
    /\ mod_id_to_filename = << >>
    /\ corrections_made = 0
    /\ visited = << >>
    /\ run = 1
    /\ first_run = << >>

\* ---- initial_classify
InitClassify ==
    /\ toml_flags \in [displayTest : BOOLEAN, exports : BOOLEAN, description : BOOLEAN]
    /\ namelist_flags \in [has_assets : BOOLEAN, has_api_folder : BOOLEAN]
    /\ code_analysis \in [SignalNames -> BOOLEAN]
    /\ classified = << >>
    /\ IdleScan /\ IdleMain

Classify ==
    /\ classified = << >>
    /\ classified' = initial_classify(toml_flags, namelist_flags, code_analysis)
    /\ UNCHANGED << toml_flags, namelist_flags, code_analysis, scanVars, mainVars >>

SpecClassify == InitClassify /\ [][Classify]_vars

\* ---- analyze_code_references, one loop iteration per step
InitScan ==
    /\ class_files \in SeqsUpTo(EntryPool, MaxEntries)
    /\ scan_i = 1
    /\ findings = NoFindings
    /\ scan_pc = "loop"
    /\ IdleClassify /\ IdleMain

\* an entry is read and tested; the loop breaks once every signal is true
ScanStep ==
    /\ scan_pc = "loop"
    /\ scan_i <= Len(class_files)
    /\ findings' = ScanEntry(findings, class_files[scan_i])
    /\ IF class_files[scan_i].readable /\ AllFound(findings')
       THEN scan_pc' = "returned" /\ UNCHANGED scan_i
       ELSE scan_i' = scan_i + 1 /\ UNCHANGED scan_pc
    /\ UNCHANGED << class_files, classifyVars, mainVars >>

\* the loop runs out of entries
ScanReturn ==
    /\ scan_pc = "loop"
    /\ scan_i > Len(class_files)
    /\ scan_pc' = "returned"
    /\ UNCHANGED << class_files, scan_i, findings, classifyVars, mainVars >>

SpecScan == InitScan /\ [][ScanStep \/ ScanReturn]_vars

(***************************************************************************)
(* main, on a directory from bounded sets.                                 *)
(***************************************************************************)
MaxFiles == 2        \* entries of the mods directory
MaxDeps  == 2        \* dependency blocks declared in the whole directory

FilePool ==
    { << 97, 46, 106, 97, 114 >>,        \* "a.jar"
      << 66, 46, 106, 97, 114 >>,        \* "B.jar"
      << 99, 46, 74, 65, 82 >>,          \* "c.JAR"
      << 100, 46, 116, 120, 116 >> }     \* "d.txt"

\* os.listdir: the names of a directory, in arbitrary order
Listings ==
    { l \in SeqsUpTo(FilePool, MaxFiles) : \A i, j \in 1..Len(l) : i # j => l[i] # l[j] }

\* the modId of the [[mods]] table, when the manifest has one; a manifest
\* without one takes the modId of its first dependency block (FirstModId)
ModIds == {"m1", "m2"}

\* the dependency blocks of the manifests: a sided dependency, one without a
\* side, one on the platform, and one whose side is no side
DepBlockPool ==
    { [ modId |-> "m2",    side |-> << 83, 101, 114, 118, 101, 114 >> ],    \* side="Server"
      [ modId |-> "m1",    side |-> << >> ],                                \* no side
      [ modId |-> "forge", side |-> << >> ],                                \* no side
      [ modId |-> "m1",    side |-> << 110, 111, 110, 101 >> ] }            \* side="none"

NoTomlFlags == [displayTest |-> FALSE, exports |-> FALSE, description |-> FALSE]

\* the rest of an archive: one content for each of the four classifications
BodyPool ==
    { [ toml_flags     |-> NoTomlFlags,
        namelist_flags |-> [has_assets |-> FALSE, has_api_folder |-> FALSE],
        class_files    |-> << [content |-> {generic_client_sig}, readable |-> TRUE] >> ],
      [ toml_flags     |-> NoTomlFlags,
        namelist_flags |-> [has_assets |-> FALSE, has_api_folder |-> FALSE],
        class_files    |-> << >> ],
      [ toml_flags     |-> NoTomlFlags,
        namelist_flags |-> [has_assets |-> TRUE, has_api_folder |-> FALSE],
        class_files    |-> << [content |-> {generic_client_sig}, readable |-> FALSE] >> ],
      [ toml_flags     |-> [NoTomlFlags EXCEPT !.exports = TRUE],
        namelist_flags |-> [has_assets |-> FALSE, has_api_folder |-> FALSE],
        class_files    |-> << >> ] }

\* dependencies parsed so far, over all records
RECURSIVE DepsDeclared(_)
DepsDeclared(files) ==
    IF files = {} THEN 0
    ELSE LET f == CHOOSE x \in files : TRUE
         IN  (IF all_mods_info[f].initial_classification # ERROR
              THEN Len(all_mods_info[f].dependencies) ELSE 0)
             + DepsDeclared(files \ {f})

\* the archives that can be read, within what is left of MaxDeps
Archives ==
    { [ toml           |-> [modId |-> m, blocks |-> b],
        toml_flags     |-> body.toml_flags,
        namelist_flags |-> body.namelist_flags,
        class_files    |-> body.class_files ] :
      m \in {None} \cup ModIds,
      b \in SeqsUpTo(DepBlockPool, MaxDeps - DepsDeclared(DOMAIN all_mods_info)),
      body \in BodyPool }

\* what opening the archive or reading its manifest raises: BadZipFile (not
\* a zip file), which the except clause names, and zlib.error (a corrupt
\* deflate stream in META-INF/mods.toml), which it does not
Failures == {"BadZipFile", "zlib.error"}

Init ==
    /\ pc = "collect"
    /\ \E listing \in Listings : jar_files = JarFiles(listing)
    /\ pos = 1
    /\ all_mods_info = << >>
    /\ mod_id_to_filename = << >>
    /\ corrections_made = 0
    /\ visited = << >>
    /\ run = 1
    /\ first_run = << >>
    /\ IdleClassify /\ IdleScan

\* lines 256-279: the archive is read and its record and index entry are stored
CollectArchive ==
    /\ pc = "collect"
    /\ pos <= Len(jar_files)
    /\ \E archive \in Archives :
         LET info == ReadRecord(archive)
         IN  /\ all_mods_info' = Put(all_mods_info, jar_files[pos], info)
             /\ mod_id_to_filename' =
                    IndexUpdate(mod_id_to_filename, info.modId, jar_files[pos])
    /\ pos' = pos + 1
    /\ UNCHANGED << pc, jar_files, corrections_made, visited, run, first_run,
                    classifyVars, scanVars >>

\* lines 280-284: reading raised an exception the except clause names
CollectReadError ==
    /\ pc = "collect"
    /\ pos <= Len(jar_files)
    /\ \E e \in Failures :
         /\ e \in Caught
         /\ all_mods_info' = Put(all_mods_info, jar_files[pos], ErrorRecord(e))
    /\ pos' = pos + 1
    /\ UNCHANGED << pc, jar_files, mod_id_to_filename, corrections_made, visited,
                    run, first_run, classifyVars, scanVars >>

\* reading raised an exception the except clause does not name: it leaves main
CollectUncaught ==
    /\ pc = "collect"
    /\ pos <= Len(jar_files)
    /\ \E e \in Failures : e \notin Caught
    /\ pc' = "aborted"
    /\ UNCHANGED << jar_files, pos, all_mods_info, mod_id_to_filename,
                    corrections_made, visited, run, first_run,
                    classifyVars, scanVars >>

\* lines 286-289: phase 1 is over, phase 2 starts
StartCorrection ==
    /\ pc = "collect"
    /\ pos > Len(jar_files)
    /\ pc' = "correct"
    /\ pos' = 1
    /\ corrections_made' = 0
    /\ UNCHANGED << jar_files, all_mods_info, mod_id_to_filename, visited, run,
                    first_run, classifyVars, scanVars >>

\* lines 290-325: one iteration of `for filename in jar_files`
CorrectRecord ==
    /\ pc = "correct"
    /\ pos <= Len(jar_files)
    /\ LET filename == jar_files[pos]
       IN  IF \/ filename \notin DOMAIN all_mods_info
              \/ all_mods_info[filename].initial_classification = ERROR
           THEN UNCHANGED << all_mods_info, corrections_made, visited >>
           ELSE LET info == CorrectInfo(filename, all_mods_info[filename])
                IN  /\ all_mods_info' = [all_mods_info EXCEPT ![filename] = info]
                    /\ corrections_made' =
                           IF info.was_corrected /\ ~all_mods_info[filename].was_corrected
                           THEN corrections_made + 1 ELSE corrections_made
                    /\ visited' = Append(visited, filename)
    /\ pos' = pos + 1
    /\ UNCHANGED << pc, jar_files, mod_id_to_filename, run, first_run,
                    classifyVars, scanVars >>

\* line 327: phase 2 is over
FinishCorrection ==
    /\ pc = "correct"
    /\ pos > Len(jar_files)
    /\ pc' = "done"
    /\ UNCHANGED << jar_files, pos, all_mods_info, mod_id_to_filename,
                    corrections_made, visited, run, first_run,
                    classifyVars, scanVars >>

Next ==
    \/ CollectArchive
    \/ CollectReadError
    \/ CollectUncaught
    \/ StartCorrection
    \/ CorrectRecord
    \/ FinishCorrection

Spec == Init /\ [][Next]_vars

(***************************************************************************)
(* The sweep run a second time: the records the first run left become the  *)
(* input, their final classification being the initial one.                *)
(***************************************************************************)
AsInitial(info) ==
    IF info.initial_classification = ERROR THEN info
    ELSE [ info EXCEPT !.initial_classification = info.final_classification,
                       !.was_corrected = FALSE,
                       !.correction_reason = << >> ]

SecondSweep ==
    /\ pc = "done"
    /\ run = 1
    /\ first_run' = all_mods_info
    /\ all_mods_info' = [f \in DOMAIN all_mods_info |-> AsInitial(all_mods_info[f])]
    /\ run' = 2
    /\ pc' = "correct"
    /\ pos' = 1
    /\ corrections_made' = 0
    /\ visited' = << >>
    /\ UNCHANGED << jar_files, mod_id_to_filename, classifyVars, scanVars >>

SpecTwice == Init /\ [][Next \/ SecondSweep]_vars

(***************************************************************************)
(* Vocabulary of the properties.                                           *)
(***************************************************************************)
Records == DOMAIN all_mods_info

SingleSide(c) == c \in {CLIENT_ONLY, SERVER_ONLY}

IsError(f) == all_mods_info[f].initial_classification = ERROR

\* the place of a filename in the enumeration
IndexOf(f) == CHOOSE i \in 1..Len(jar_files) : jar_files[i] = f

\* a dependency that, looked at now, corrects its single-side dependent
Qualifies(dep) ==
    /\ dep.modId \notin {"minecraft", "forge"}
    /\ \/ dep.side = BOTH
       \/ /\ dep.modId \in DOMAIN mod_id_to_filename
          /\ LET target == all_mods_info[mod_id_to_filename[dep.modId]]
             IN  /\ target.initial_classification # ERROR
                 /\ target.final_classification \in {UNIVERSAL, API_LIBRARY}

\* the record the running step of the sweep examines, if any
Scanning(f) == pc = "correct" /\ pos <= Len(jar_files) /\ jar_files[pos] = f

(***************************************************************************)
(* C1.  At every point of the run every record either has its final        *)
(* classification equal to the initial one and is not marked corrected, or *)
(* was CLIENT_ONLY or SERVER_ONLY, is now UNIVERSAL and is marked          *)
(* corrected.                                                              *)
(***************************************************************************)
C1_CorrectionShape ==
    \A f \in Records :
      LET r == all_mods_info[f]
      IN  \/ /\ r.final_classification = r.initial_classification
             /\ ~r.was_corrected
          \/ /\ SingleSide(r.initial_classification)
             /\ r.final_classification = UNIVERSAL
             /\ r.was_corrected

\* the sweep is over, one record was corrected and another, which no
\* correction applies to although it declares a both-sided dependency, was not
C1_Witness ==
    /\ pc = "done"
    /\ \E f, g \in Records :
         /\ all_mods_info[f].was_corrected
         /\ all_mods_info[g].initial_classification \in {UNIVERSAL, API_LIBRARY}
         /\ \E i \in 1..Len(all_mods_info[g].dependencies) :
              Qualifies(all_mods_info[g].dependencies[i])

(***************************************************************************)
(* C3.  Every dependency the extractor produces has side CLIENT, SERVER or *)
(* BOTH, a side that is none of the three being read as BOTH; so a         *)
(* single-side record with a dependency (not on the platform) whose side   *)
(* is not CLIENT or SERVER ends the sweep UNIVERSAL.                       *)
(***************************************************************************)
C3_SideIsOneOfThree ==
    \A f \in Records :
      ~IsError(f) =>
        LET r == all_mods_info[f]
        IN  /\ \A i \in 1..Len(r.dependencies) :
                 r.dependencies[i].side \in {CLIENT, SERVER, BOTH}
            /\ ( /\ pc = "done"
                 /\ SingleSide(r.initial_classification)
                 /\ \E i \in 1..Len(r.dependencies) :
                      /\ r.dependencies[i].modId \notin {"minecraft", "forge"}
                      /\ r.dependencies[i].side \notin {CLIENT, SERVER} )
               => r.final_classification = UNIVERSAL

(***************************************************************************)
(* C4.  No failure of reading an archive leaves the run: the run is never  *)
(* aborted, and once the collection phase is over every enumerated archive *)
(* has a record.                                                           *)
(***************************************************************************)
C4_NoFailureEscapes ==
    /\ pc # "aborted"
    /\ pc \in {"correct", "done"} =>
         \A i \in 1..Len(jar_files) : jar_files[i] \in Records

(***************************************************************************)
(* C5.  The index maps modId m to filename f exactly when f is the last    *)
(* archive, in enumeration order, that has a record which is not ERROR and *)
(* whose parsed modId is m (while the records are collected: the last of   *)
(* the archives read so far); no index key is the absent modId; and no     *)
(* step of the sweep adds, removes or changes an index entry.              *)
(***************************************************************************)
Provides(f, m) ==
    /\ f \in Records
    /\ ~IsError(f)
    /\ all_mods_info[f].modId = m

LastProvider(f, m) ==
    /\ Provides(f, m)
    /\ \A j \in (IndexOf(f) + 1)..Len(jar_files) : ~Provides(jar_files[j], m)

IndexIsLastProvider ==
    /\ \A m \in DOMAIN mod_id_to_filename :
         m # None /\ LastProvider(mod_id_to_filename[m], m)
    /\ \A f \in Records :
         ~IsError(f) =>
           LET m == all_mods_info[f].modId
           IN  (m # None /\ LastProvider(f, m)) =>
                 m \in DOMAIN mod_id_to_filename /\ mod_id_to_filename[m] = f

C5_IndexIsLastProvider ==
    /\ []IndexIsLastProvider
    /\ [][ (pc \in {"correct", "done"}) =>
             (mod_id_to_filename' = mod_id_to_filename) ]_vars

\* two archives with the same modId were read and the sweep has run
C5_Witness ==
    /\ pc = "done"
    /\ \E f, g \in Records :
         /\ f # g
         /\ ~IsError(f) /\ ~IsError(g)
         /\ all_mods_info[f].modId # None
         /\ all_mods_info[f].modId = all_mods_info[g].modId
         /\ all_mods_info[g].was_corrected

(***************************************************************************)
(* C2.  A CLIENT_ONLY or SERVER_ONLY record becomes UNIVERSAL in the step  *)
(* of the sweep that scans it exactly when one of its dependencies         *)
(* qualifies at that moment, and in no other step; ignored, unresolved and *)
(* single-side-resolving dependencies neither correct nor end the scan.    *)
(***************************************************************************)
HasQualifyingDependency(f) ==
    \E i \in 1..Len(all_mods_info[f].dependencies) :
      Qualifies(all_mods_info[f].dependencies[i])

C2_CorrectedIffQualifying ==
    [][ \A f \in Records :
          SingleSide(all_mods_info[f].initial_classification) =>
            ( all_mods_info'[f].final_classification = UNIVERSAL
              <=> \/ all_mods_info[f].final_classification = UNIVERSAL
                  \/ Scanning(f) /\ HasQualifyingDependency(f) ) ]_vars

\* a record was corrected because its second dependency resolves to a
\* universal or API record, its first dependency being unresolved
C2_Witness ==
    /\ pc = "done"
    /\ \E f \in Records :
         /\ all_mods_info[f].was_corrected
         /\ Len(all_mods_info[f].dependencies) = 2
         /\ all_mods_info[f].dependencies[1].modId \notin
                DOMAIN mod_id_to_filename \cup {"minecraft", "forge"}
         /\ all_mods_info[f].dependencies[1].side # BOTH
         /\ all_mods_info[f].dependencies[2].side # BOTH
         /\ all_mods_info[f].correction_reason =
                << "universal/API", all_mods_info[f].dependencies[2].modId >>

(***************************************************************************)
(* C6.  The classifier returns the category of the first rule that         *)
(* matches, and never ERROR: displayTest, exports, description, then the   *)
(* rules on the code signals, the assets and the api folder.               *)
(***************************************************************************)
C6_DecisionChain ==
    classified # << >> =>
      LET c == classified[1]
          client == \/ code_analysis["has_distexecutor_client"]
                    \/ code_analysis["has_onlyin_client"]
                    \/ code_analysis["has_generic_client_ref"]
                    \/ code_analysis["has_fmlenvironment_dist"]
          server == \/ code_analysis["has_distexecutor_server"]
                    \/ code_analysis["has_onlyin_server"]
                    \/ code_analysis["has_server_ref"]
          both   == code_analysis["has_level_isclientside"] \/ (client /\ server)
          silent == /\ ~toml_flags.displayTest
                    /\ ~toml_flags.exports
                    /\ ~toml_flags.description
          assets == namelist_flags.has_assets
          api    == namelist_flags.has_api_folder
      IN  /\ c \in Classifications \ {ERROR}
          /\ toml_flags.displayTest => c = CLIENT_ONLY
          /\ ~toml_flags.displayTest /\ toml_flags.exports => c = API_LIBRARY
          /\ ~toml_flags.displayTest /\ ~toml_flags.exports /\ toml_flags.description
               => c = API_LIBRARY
          /\ silent /\ both => c = UNIVERSAL
          /\ silent /\ ~both /\ ~assets /\ client => c = CLIENT_ONLY
          /\ silent /\ ~both /\ ~assets /\ ~client => c = SERVER_ONLY
          /\ silent /\ ~both /\ assets /\ client => c = UNIVERSAL
          /\ silent /\ ~both /\ assets /\ ~client /\ api => c = API_LIBRARY
          /\ silent /\ ~both /\ assets /\ ~client /\ ~api => c = UNIVERSAL

\* displayTest wins over an exports section and over every code signal
C6_Witness ==
    /\ classified # << >>
    /\ classified[1] = CLIENT_ONLY
    /\ toml_flags.displayTest /\ toml_flags.exports /\ toml_flags.description
    /\ namelist_flags.has_assets
    /\ \A s \in SignalNames : code_analysis[s]

(***************************************************************************)
(* C7.  A second sweep over the output of the first corrects nothing,      *)
(* whenever the first sweep scanned no record before a dependency target   *)
(* of it that was corrected later in that sweep.                           *)
(***************************************************************************)
NoLateTarget ==
    \A f \in Records :
      ~IsError(f) =>
        \A i \in 1..Len(all_mods_info[f].dependencies) :
          LET m == all_mods_info[f].dependencies[i].modId
          IN  (m \notin IGNORED_DEPENDENCIES /\ m \in DOMAIN mod_id_to_filename) =>
                ~ /\ first_run[mod_id_to_filename[m]].was_corrected
                  /\ IndexOf(mod_id_to_filename[m]) > IndexOf(f)

C7_SecondSweepCorrectsNothing ==
    (run = 2 /\ NoLateTarget) =>
      /\ corrections_made = 0
      /\ \A f \in Records : ~all_mods_info[f].was_corrected

\* the second sweep is over; in the first, a record was corrected because of
\* a dependency on a record that had itself been corrected before it
C7_Witness ==
    /\ run = 2
    /\ pc = "done"
    /\ NoLateTarget
    /\ \E f, g \in Records :
         /\ f # g
         /\ ~IsError(f) /\ ~IsError(g)
         /\ first_run[g].was_corrected
         /\ first_run[f].was_corrected
         /\ first_run[f].correction_reason[1] = "universal/API"
         /\ first_run[f].correction_reason[2] = first_run[g].modId

(***************************************************************************)
(* C8.  Each signal is the disjunction, over the readable entries scanned  *)
(* so far, of its condition on a single entry; a signal that is true stays *)
(* true; and what the scanner returns, early or not, is the disjunction    *)
(* over all readable entries.                                              *)
(***************************************************************************)
EntryHas(signal, content) ==
    CASE signal = "has_level_isclientside" ->
            {isclientside_sig, level_class_sig} \subseteq content
      [] signal = "has_distexecutor_client" ->
            {distexecutor_sig, dist_sig, client_enum_sig} \subseteq content
      [] signal = "has_distexecutor_server" ->
            {distexecutor_sig, dist_sig, server_enum_sig} \subseteq content
      [] signal = "has_onlyin_client" ->
            {onlyin_sig, dist_sig, client_enum_sig} \subseteq content
      [] signal = "has_onlyin_server" ->
            {onlyin_sig, dist_sig, server_enum_sig} \subseteq content
      [] signal = "has_fmlenvironment_dist" -> fmlenv_sig \in content
      [] signal = "has_generic_client_ref" -> generic_client_sig \in content
      [] signal = "has_server_ref" -> server_sig \in content

SomeEntryHas(signal, n) ==
    \E j \in 1..n : class_files[j].readable /\ EntryHas(signal, class_files[j].content)

\* the entries the loop has been through
Scanned ==
    IF scan_pc = "returned" /\ scan_i <= Len(class_files) THEN scan_i ELSE scan_i - 1

C8_SignalsAreDisjunctions ==
    /\ [](\A s \in SignalNames :
            /\ findings[s] = SomeEntryHas(s, Scanned)
            /\ scan_pc = "returned" => findings[s] = SomeEntryHas(s, Len(class_files)))
    /\ [][\A s \in SignalNames : findings[s] => findings'[s]]_vars

\* the scan stopped before the last entry, after an entry it could not read
C8_Witness ==
    /\ scan_pc = "returned"
    /\ scan_i < Len(class_files)
    /\ scan_i > 1
    /\ ~class_files[1].readable
    /\ class_files[1].content # {}
    /\ class_files[Len(class_files)].readable

(***************************************************************************)
(* C9.  A corrected record is never touched again, and the reason of a     *)
(* correction names the first dependency, in declaration order, that       *)
(* qualifies, by the kind of that dependency; the counter of the sweep     *)
(* counts each corrected record once.                                      *)
(***************************************************************************)
FirstQualifying(f) ==
    CHOOSE k \in 1..Len(all_mods_info[f].dependencies) :
      /\ Qualifies(all_mods_info[f].dependencies[k])
      /\ \A j \in 1..(k - 1) : ~Qualifies(all_mods_info[f].dependencies[j])

ReasonOf(dep) ==
    IF dep.side = BOTH THEN << "side=BOTH", dep.modId >>
                       ELSE << "universal/API", dep.modId >>

C9_FirstQualifyingDecides ==
    /\ [][ \A f \in Records :
             /\ all_mods_info[f].was_corrected =>
                  all_mods_info'[f] = all_mods_info[f]
             /\ ~all_mods_info[f].was_corrected /\ all_mods_info'[f].was_corrected =>
                  /\ HasQualifyingDependency(f)
                  /\ all_mods_info'[f].correction_reason =
                         ReasonOf(all_mods_info[f].dependencies[FirstQualifying(f)]) ]_vars
    /\ [](pc \in {"correct", "done"} =>
            corrections_made = Cardinality({f \in Records : all_mods_info[f].was_corrected}))

\* a record with two qualifying dependencies of different kinds, corrected
\* for the first of them
C9_Witness ==
    /\ pc = "done"
    /\ \E f \in Records :
         /\ all_mods_info[f].was_corrected
         /\ Len(all_mods_info[f].dependencies) = 2
         /\ Qualifies(all_mods_info[f].dependencies[1])
         /\ Qualifies(all_mods_info[f].dependencies[2])
         /\ all_mods_info[f].dependencies[1].side # BOTH
         /\ all_mods_info[f].dependencies[2].side = BOTH
         /\ all_mods_info[f].correction_reason =
                << "universal/API", all_mods_info[f].dependencies[1].modId >>

(***************************************************************************)
(* C10.  The archives are enumerated in case-insensitive order of their    *)
(* names; the sweep starts with every archive's record in place, examines  *)
(* the records that are not ERROR once each, in that order; and a          *)
(* single-side record A whose only dependency off the platform is a        *)
(* CLIENT- or SERVER-sided one on a single-side record B that the sweep    *)
(* corrects ends UNIVERSAL when B precedes A and unchanged when A          *)
(* precedes B.                                                             *)
(***************************************************************************)
NotIgnored(f) ==
    SelectSeq(all_mods_info[f].dependencies,
              LAMBDA d : d.modId \notin {"minecraft", "forge"})

\* A's only dependency off the platform is a sided one that resolves to B
DependsOnlyOn(a, b) ==
    /\ Len(NotIgnored(a)) = 1
    /\ NotIgnored(a)[1].side \in {CLIENT, SERVER}
    /\ NotIgnored(a)[1].modId \in DOMAIN mod_id_to_filename
    /\ mod_id_to_filename[NotIgnored(a)[1].modId] = b

\* sorted(..., key=str.lower) left the names in case-insensitive order
EnumerationSorted ==
    \A i, j \in 1..Len(jar_files) :
      i < j => ~StrLess(Lower(jar_files[j]), Lower(jar_files[i]))

SinglePass ==
    /\ pos = 1 => EnumerationSorted
    /\ pc \in {"correct", "done"} =>
         /\ Records = {jar_files[i] : i \in 1..Len(jar_files)}
         /\ visited = SelectSeq(SubSeq(jar_files, 1, pos - 1), LAMBDA f : ~IsError(f))
    /\ pc \in {"collect", "aborted"} => visited = << >>
    /\ pc = "done" =>
         \A a, b \in Records :
           ( /\ a # b
             /\ ~IsError(a) /\ ~IsError(b)
             /\ SingleSide(all_mods_info[a].initial_classification)
             /\ SingleSide(all_mods_info[b].initial_classification)
             /\ all_mods_info[b].was_corrected
             /\ DependsOnlyOn(a, b) )
           => /\ IndexOf(b) < IndexOf(a) =>
                   all_mods_info[a].final_classification = UNIVERSAL
              /\ IndexOf(a) < IndexOf(b) =>
                   /\ all_mods_info[a].final_classification =
                          all_mods_info[a].initial_classification
                   /\ ~all_mods_info[a].was_corrected

\* the enumeration is sorted when each of the two loops starts on it, and no
\* step changes it
C10_SinglePassInOrder ==
    /\ []SinglePass
    /\ [][ /\ jar_files' = jar_files
           /\ \/ visited' = visited
              \/ /\ pc = "correct" /\ pos <= Len(jar_files)
                 /\ visited' = Append(visited, jar_files[pos]) ]_vars

\* a.jar is scanned before B.jar, which it depends on and which is corrected
\* after it: a.jar keeps its single-side classification
C10_Witness ==
    /\ pc = "done"
    /\ Len(jar_files) = 2
    /\ StrLess(jar_files[2], jar_files[1])
    /\ ~IsError(jar_files[1]) /\ ~IsError(jar_files[2])
    /\ SingleSide(all_mods_info[jar_files[1]].initial_classification)
    /\ SingleSide(all_mods_info[jar_files[2]].initial_classification)
    /\ DependsOnlyOn(jar_files[1], jar_files[2])
    /\ all_mods_info[jar_files[2]].was_corrected
    /\ ~all_mods_info[jar_files[1]].was_corrected

====
